---- MODULE Spec2Model ----
(***************************************************************************)
(* compio-boring: the asynchronous adapter around the blocking TLS engine. *)
(* One Stream is driven by one task (src/compio-boring/src/lib.rs).  Every *)
(* action below is the code that runs between two await points: the        *)
(* resolution of the pending bridge operation, the synchronous engine call *)
(* that follows it and the match on its result, up to the next await or    *)
(* the return.                                                             *)
(*                                                                         *)
(* The engine (boring::ssl) and the bridge (compio_io::compat::SyncStream) *)
(* are external: the engine is a nondeterministic choice over the results  *)
(* of its interface, the bridge is a pair of buffers whose flush delivers  *)
(* the write buffer to the transport and whose fill fetches peer bytes.    *)
(***************************************************************************)
EXTENDS Integers, Sequences, FiniteSets, TLC

\* ---------------------------------------------------------------- bounds
MaxWB == 3      \* engine would-blocks within one operation
MaxBytes == 3   \* records all write() calls together hand to the bridge
MaxEmit == 1    \* records the engine hands to the bridge in one handshake call
MaxBuf == 3     \* length of the buffer of one write() call
MaxIn == 1      \* application bytes the peer sends in total
MaxCap == 2     \* largest capacity a SimpleCache is created with
MaxKey == 3     \* cache keys are 1..MaxKey
MaxField == 2   \* longest encoded session / transport parameters of an Entry

Callers == {"a", "b"}
Vals == {1, 2}

IoErrors == {"BrokenPipe", "ConnectionReset"}
EngineError == "Ssl"

VARIABLES
    pc,         \* await point / position of the task
    outcome,    \* Handshake Outcome: [tag, detail]
    wbuf,       \* bridge write buffer: records not yet delivered
    rbuf,       \* bridge read buffer: bytes fetched, not yet consumed
    eof,        \* the transport reported end of stream to a fill
    transport,  \* application records the transport has observed, in order
    log,        \* engine calls and bridge steps of the current operation
    wbCount,    \* engine would-blocks of the current operation
    cur,        \* current Stream operation: [op, len]
    wpend,      \* bytes of the current write buffer the engine already took
    accepted,   \* bytes the caller wrote, by the counts write() returned
    clean,      \* no write() has returned an error
    result,     \* result of the Stream operation that returned last, none
                \* while an operation is in progress: [op, kind, n, err]
    recvd,      \* application bytes fetched from the peer so far
    entry,      \* the entry point that started the handshake attempt
    role,       \* the role the engine was started in
    closeState, \* the engine's close state: open until a close-notify is sent
    sdCalled,   \* shutdown() has been called on the Stream
    capacity,   \* SimpleCache: number of entries it was created for, 0 before
    cache,      \* SimpleCache: the entries, most recently used first
    holding,    \* SimpleCache: per caller, the call it holds the lock for
    ret,        \* SimpleCache: what the call that completed last returned
    used,       \* history: the live keys, least recently used first
    latest,     \* history: per key the value of its latest put, 0 when none
                \* or when the key was removed, cleared or evicted since
    encoded,    \* Entry: the cache value handed to decode
    decoded     \* Entry: how the last decode ended

cacheVars == <<capacity, cache, holding, ret, used, latest>>
codecVars == <<encoded, decoded>>
streamVars == <<pc, outcome, wbuf, rbuf, eof, transport, log, wbCount, cur,
                wpend, accepted, clean, result, recvd, entry, role,
                closeState, sdCalled>>

vars == <<pc, outcome, wbuf, rbuf, eof, transport, log, wbCount, cur,
          wpend, accepted, clean, result, recvd, entry, role, closeState,
          sdCalled, capacity, cache, holding, ret, used, latest, encoded,
          decoded>>

\* ---------------------------------------------------------------- helpers
Ev(op, r, n) == [op |-> op, r |-> r, n |-> n]

HsRec == [rec |-> "hs", byte |-> 0]
AppRec(b) == [rec |-> "app", byte |-> b]

Emit(m) == [i \in 1..m |-> HsRec]
IsAppRec(r) == r.rec = "app"
AppOnly(t) == SelectSeq(t, IsAppRec)

IsTransportStep(e) == e.op \in {"flush", "fill"}
TransportSteps(l) == SelectSeq(l, IsTransportStep)
IsEngineCall(e) == e.op \in {"handshake", "read", "write", "eflush"}
EngineCalls(l) == SelectSeq(l, IsEngineCall)
IsFlush(e) == e.op = "flush"
IsFill(e) == e.op = "fill"
IsWB(e) == IsEngineCall(e) /\ e.r = "WouldBlock"
Count(l, P(_)) == Len(SelectSeq(l, P))
Ops(l) == [i \in 1..Len(l) |-> l[i].op]

NoOutcome == [tag |-> "None", detail |-> ""]
Connected == [tag |-> "Connected", detail |-> ""]
Inner(e) == [tag |-> "Inner", detail |-> e]
Io(e) == [tag |-> "Io", detail |-> e]

NoResult == [op |-> "none", kind |-> "None", n |-> 0, err |-> ""]
NoOp == [op |-> "none", len |-> 0]

\* ---------------------------------------------------------------- bridge
\* SyncStream::flush_write_buf: deliver the write buffer, report the count.
\* A failed flush may have delivered any prefix.
FlushOutcomes(w) ==
    {[ok |-> TRUE, n |-> Len(w), sent |-> w, rest |-> <<>>, err |-> ""]}
    \cup {[ok |-> FALSE, n |-> 0, sent |-> SubSeq(w, 1, j),
           rest |-> SubSeq(w, j + 1, Len(w)), err |-> e] :
              j \in 0..Len(w), e \in IoErrors}

\* SyncStream::fill_read_buf: fetch bytes of the peer; 0 is end of stream.
\* During the handshake the peer sends handshake bytes (0), afterwards the
\* application bytes recvd+1, recvd+2, ...
FillOutcomes(hs) ==
    {[ok |-> TRUE, n |-> 0, data |-> <<>>, err |-> ""]}
    \cup (IF eof THEN {}
          ELSE IF hs THEN {[ok |-> TRUE, n |-> 1, data |-> <<0>>, err |-> ""]}
          ELSE {[ok |-> TRUE, n |-> k,
                 data |-> [i \in 1..k |-> recvd + i], err |-> ""] :
                    k \in 1..(MaxIn - recvd)})
    \cup {[ok |-> FALSE, n |-> 0, data |-> <<>>, err |-> e] : e \in IoErrors}

\* ---------------------------------------------------------------- handshake
\* The bridge operation awaited at each call site of perform_tls_handshake.
hs_wb_flush(w) == FlushOutcomes(w)          \* lib.rs 313-317
hs_trailing_flush(w) == FlushOutcomes(w)    \* lib.rs 301-304

\* Results of the engine's handshake call.  SetupFailure comes only from
\* the first call (ConnectConfiguration::connect / SslAcceptor::accept);
\* MidHandshakeSslStream::handshake reports Done, WouldBlock or Failure.
HandshakeResults(first) ==
    {"Done", "WouldBlock", "Failure"}
    \cup (IF first THEN {"SetupFailure"} ELSE {})

\* Mutant of hs_match: Connected is returned without the trailing flush.
hs_match_no_trailing_flush(r) ==
    CASE r = "Done" -> [pc |-> "ready", outcome |-> Connected]
      [] r = "Failure" -> [pc |-> "hs_returned", outcome |-> Inner(r)]
      [] r = "SetupFailure" -> [pc |-> "hs_returned", outcome |-> Inner(r)]
      [] r = "WouldBlock" -> [pc |-> "hs_flush", outcome |-> NoOutcome]

\* Mutant of hs_match: the driver gives up on a would-block by itself.
hs_match_gives_up(r) ==
    CASE r = "Done" -> [pc |-> "hs_final", outcome |-> NoOutcome]
      [] r = "Failure" -> [pc |-> "hs_returned", outcome |-> Inner(r)]
      [] r = "SetupFailure" -> [pc |-> "hs_returned", outcome |-> Inner(r)]
      [] r = "WouldBlock" -> [pc |-> "hs_returned", outcome |-> Inner(r)]

\* Mutant of hs_match: an engine Failure is retried like a would-block.
hs_match_retry_failure(r) ==
    CASE r = "Done" -> [pc |-> "hs_final", outcome |-> NoOutcome]
      [] r = "Failure" -> [pc |-> "hs_flush", outcome |-> NoOutcome]
      [] r = "SetupFailure" -> [pc |-> "hs_returned", outcome |-> Inner(r)]
      [] r = "WouldBlock" -> [pc |-> "hs_flush", outcome |-> NoOutcome]

\* lib.rs 299-312: the match on res, up to the next await or the return.
hs_match(r) ==
    CASE r = "Done" -> [pc |-> "hs_final", outcome |-> NoOutcome]
      [] r = "Failure" -> [pc |-> "hs_returned", outcome |-> Inner(r)]
      [] r = "SetupFailure" -> [pc |-> "hs_returned", outcome |-> Inner(r)]
      [] r = "WouldBlock" -> [pc |-> "hs_flush", outcome |-> NoOutcome]

\* Mutant of hs_after_flush: the fill follows every successful flush.
hs_after_flush_always_fill(f) ==
    IF ~f.ok THEN [pc |-> "hs_returned", outcome |-> Io(f.err)]
    ELSE [pc |-> "hs_fill", outcome |-> NoOutcome]

\* Mutant of hs_after_flush: the engine is retried without any fill.
hs_after_flush_never_fill(f) ==
    IF ~f.ok THEN [pc |-> "hs_returned", outcome |-> Io(f.err)]
    ELSE [pc |-> "hs_retry", outcome |-> NoOutcome]

\* lib.rs 313-319: flush_write_buf().await.map_err(Io)? == 0
hs_after_flush(f) ==
    IF ~f.ok THEN [pc |-> "hs_returned", outcome |-> Io(f.err)]
    ELSE IF f.n = 0 THEN [pc |-> "hs_fill", outcome |-> NoOutcome]
    ELSE [pc |-> "hs_retry", outcome |-> NoOutcome]

\* Mutant of hs_after_fill: a failed fill is swallowed and the engine retried.
hs_after_fill_swallow(f) == [pc |-> "hs_retry", outcome |-> NoOutcome]

\* lib.rs 320-324: fill_read_buf().await.map_err(Io)?
hs_after_fill(f) ==
    IF ~f.ok THEN [pc |-> "hs_returned", outcome |-> Io(f.err)]
    ELSE [pc |-> "hs_retry", outcome |-> NoOutcome]

\* Mutant of hs_after_final: the result of the trailing flush is ignored.
hs_after_final_ignore_err(f) == [pc |-> "ready", outcome |-> Connected]

\* lib.rs 300-306: the trailing flush, then Ok(SslStream(s))
hs_after_final(f) ==
    IF ~f.ok THEN [pc |-> "hs_returned", outcome |-> Io(f.err)]
    ELSE [pc |-> "ready", outcome |-> Connected]

\* The engine's handshake call on bridge buffers w, with log l, followed by
\* the match on its result (lib.rs 326, then 299-312).
handshake(first, w, l) ==
    \E r \in HandshakeResults(first), m \in 0..MaxEmit :
        /\ r = "WouldBlock" => wbCount < MaxWB
        /\ wbCount' = IF r = "WouldBlock" THEN wbCount + 1 ELSE wbCount
        /\ wbuf' = w \o Emit(m)
        /\ rbuf' = <<>>
        /\ log' = Append(l, Ev("handshake", r, Len(w) + m))
        /\ pc' = hs_match(r).pc
        /\ outcome' = hs_match(r).outcome

\* The role the engine takes for the call that starts it:
\* ConnectConfiguration::connect and ssl::SslStreamBuilder::connect start a
\* client, SslAcceptor::accept starts a server.
engine_role(call) == IF call = "accept" THEN "server" ELSE "client"

\* The engine call each entry point makes.
connect_call == "connect"               \* lib.rs 48
accept_call == "accept"                 \* lib.rs 60
builder_accept_call == "connect"        \* lib.rs 82
builder_connect_call == "connect"       \* lib.rs 88

\* An entry point makes the first engine call and enters
\* perform_tls_handshake.
start(name, call) ==
    /\ pc = "init"
    /\ entry' = name
    /\ role' = engine_role(call)
    /\ handshake(TRUE, wbuf, log)
    /\ UNCHANGED <<eof, transport, cur, wpend, accepted, clean, result,
                   recvd, closeState, sdCalled, cacheVars, codecVars>>

\* lib.rs 40-50
connect == start("connect", connect_call)

\* lib.rs 56-62
accept == start("accept", accept_call)

\* lib.rs 80-84
builder_accept == start("SslStreamBuilder::accept", builder_accept_call)

\* lib.rs 86-90
builder_connect == start("SslStreamBuilder::connect", builder_connect_call)

\* lib.rs 313-326: the would-block flush resolves.
hs_flush_resolved ==
    /\ pc = "hs_flush"
    /\ \E f \in hs_wb_flush(wbuf) :
        LET l == Append(log, Ev("flush", IF f.ok THEN "Ok" ELSE f.err, f.n))
            nx == hs_after_flush(f)
        IN  /\ transport' = transport \o AppOnly(f.sent)
            /\ IF nx.pc = "hs_retry"
               THEN handshake(FALSE, f.rest, l)
               ELSE /\ pc' = nx.pc
                    /\ outcome' = nx.outcome
                    /\ wbuf' = f.rest
                    /\ log' = l
                    /\ UNCHANGED <<rbuf, wbCount>>
    /\ UNCHANGED <<eof, cur, wpend, accepted, clean, result, recvd,
                   entry, role, closeState, sdCalled,
                   cacheVars, codecVars>>

\* lib.rs 320-326: the fill resolves.
hs_fill_resolved ==
    /\ pc = "hs_fill"
    /\ \E f \in FillOutcomes(TRUE) :
        LET l == Append(log, Ev("fill", IF f.ok THEN "Ok" ELSE f.err, f.n))
            nx == hs_after_fill(f)
        IN  /\ eof' = (eof \/ (f.ok /\ f.n = 0))
            /\ IF nx.pc = "hs_retry"
               THEN handshake(FALSE, wbuf, l)
               ELSE /\ pc' = nx.pc
                    /\ outcome' = nx.outcome
                    /\ log' = l
                    /\ UNCHANGED <<wbuf, rbuf, wbCount>>
    /\ UNCHANGED <<transport, cur, wpend, accepted, clean, result, recvd,
                   entry, role, closeState, sdCalled,
                   cacheVars, codecVars>>

\* lib.rs 300-306: the trailing flush resolves.
hs_final_resolved ==
    /\ pc = "hs_final"
    /\ \E f \in hs_trailing_flush(wbuf) :
        LET nx == hs_after_final(f)
        IN  /\ transport' = transport \o AppOnly(f.sent)
            /\ wbuf' = f.rest
            /\ log' = Append(log, Ev("flush", IF f.ok THEN "Ok" ELSE f.err, f.n))
            /\ pc' = nx.pc
            /\ outcome' = nx.outcome
    /\ UNCHANGED <<rbuf, eof, wbCount, cur, wpend, accepted, clean,
                   result, recvd, entry, role, closeState, sdCalled,
                   cacheVars, codecVars>>

\* ---------------------------------------------------------------- Stream
Ret(op, kind, n, err) == [op |-> op, kind |-> kind, n |-> n, err |-> err]

\* Assignment of the variables the write/flush/shutdown paths change.
Leaf(p, w, l, c, wp, acc, cl, res) ==
    /\ pc' = p
    /\ wbuf' = w
    /\ log' = l
    /\ wbCount' = c
    /\ wpend' = wp
    /\ accepted' = acc
    /\ clean' = cl
    /\ result' = res

\* Mutant of flush_last_step: no bridge flush after the engine's success.
flush_last_skip(w) ==
    {[ok |-> TRUE, n |-> 0, sent |-> <<>>, rest |-> w, err |-> ""]}

\* The bridge operation awaited at each call site of lib.rs.
flush_wb_step(w) == FlushOutcomes(w)        \* lib.rs 209
flush_last_step(w) == FlushOutcomes(w)      \* lib.rs 214

\* Mutant of is_would_block: would-block is handled like any other error.
is_would_block_never(kind) == FALSE

\* lib.rs 174, 195, 208: e.kind() == io::ErrorKind::WouldBlock
is_would_block(kind) == kind = "WouldBlock"

\* Mutant of read_match: a would-block of the engine's read is returned to
\* the caller like any other error.
read_match_no_wait(kind) ==
    IF kind = "Ok" THEN "return_ok" ELSE "return_err"

\* Mutant of read_match: a successful engine read is retried after another
\* fill, like a would-block.
read_match_retry_ok(kind) ==
    IF kind = "Ok" THEN "rd_fill"
    ELSE IF is_would_block(kind) THEN "rd_fill"
    ELSE "return_err"

\* Mutant of read_match: an engine error is retried after a fill, like a
\* would-block.
read_match_err_retries(kind) ==
    IF kind = "Ok" THEN "return_ok" ELSE "rd_fill"

\* lib.rs 169-181: the match on the result of the engine's read.
read_match(kind) ==
    IF kind = "Ok" THEN "return_ok"
    ELSE IF is_would_block(kind) THEN "rd_fill"
    ELSE "return_err"

\* The engine's read would-blocks only when the bridge's synchronous read
\* does, and the bridge reports would-block only while the transport has not
\* reported end of stream (e); after that it reports 0 bytes.
ReadMayBlock(e) == ~e

\* Results of the engine's read on read buffer rb, the transport having
\* reported end of stream or not (e): n >= 1 bytes of rb, 0 at end of
\* stream, would-block (needs more bytes), or an engine error.
ReadResults(rb, e) ==
    {[kind |-> "Ok", n |-> k] : k \in 1..Len(rb)}
    \cup (IF rb = <<>> /\ e THEN {[kind |-> "Ok", n |-> 0]} ELSE {})
    \cup (IF ReadMayBlock(e) THEN {[kind |-> "WouldBlock", n |-> 0]} ELSE {})
    \cup {[kind |-> EngineError, n |-> 0]}

\* io::Read::read(&mut self.0, slice) and the match (lib.rs 168-181).
engine_read(rb, e, l, c) ==
    \E r \in ReadResults(rb, e) :
        LET l2 == Append(l, Ev("read", r.kind, r.n))
            nx == read_match(r.kind)
        IN  /\ r.kind = "WouldBlock" => c < MaxWB
            /\ log' = l2
            /\ rbuf' = SubSeq(rb, r.n + 1, Len(rb))
            /\ wbCount' = IF r.kind = "WouldBlock" THEN c + 1 ELSE c
            /\ CASE nx = "return_ok" ->
                      /\ pc' = "ready"
                      /\ result' = Ret("read", "Ok", r.n, "")
                 [] nx = "rd_fill" ->
                      /\ pc' = "rd_fill"
                      /\ result' = NoResult
                 [] nx = "return_err" ->
                      /\ pc' = "ready"
                      /\ result' = Ret("read", "Err", 0, r.kind)

\* lib.rs 157-183: AsyncRead::read up to its first await or its return.
read ==
    /\ pc = "ready"
    /\ cur' = [op |-> "read", len |-> 0]
    /\ engine_read(rbuf, eof, <<>>, 0)
    /\ UNCHANGED <<outcome, wbuf, eof, transport, wpend, accepted, clean,
                   recvd, entry, role, closeState, sdCalled,
                   cacheVars, codecVars>>

\* lib.rs 175-178: the fill resolves.
rd_fill_resolved ==
    /\ pc = "rd_fill"
    /\ \E f \in FillOutcomes(FALSE) :
        LET l == Append(log, Ev("fill", IF f.ok THEN "Ok" ELSE f.err, f.n))
            e == eof \/ (f.ok /\ f.n = 0)
        IN  /\ eof' = e
            /\ recvd' = recvd + f.n
            /\ IF f.ok
               THEN engine_read(rbuf \o f.data, e, l, wbCount)
               ELSE /\ pc' = "ready"
                    /\ result' = Ret("read", "Err", 0, f.err)
                    /\ log' = l
                    /\ UNCHANGED <<rbuf, wbCount>>
    /\ UNCHANGED <<outcome, wbuf, transport, cur, wpend, accepted, clean,
                   entry, role, closeState, sdCalled,
                   cacheVars, codecVars>>

\* Mutant of flush_match: a would-block of the engine's flush ends the loop.
flush_match_wb_breaks(kind) ==
    IF kind = "Ok" THEN "fl_last"
    ELSE IF is_would_block(kind) THEN "fl_last"
    ELSE "return_err"

\* lib.rs 206-212: the match on the result of the engine's flush.
flush_match(kind) ==
    IF kind = "Ok" THEN "fl_last"
    ELSE IF is_would_block(kind) THEN "fl_wb"
    ELSE "return_err"

\* flush() returns an error to its caller: flush itself, write (lib.rs 197)
\* or shutdown (lib.rs 219, the ? operator).
flush_failed(op, err, w, l, c) ==
    Leaf("ready", w, l, c, 0, accepted,
         IF op = "write" THEN FALSE ELSE clean,
         Ret(op, "Err", 0, err))

\* io::Write::flush(&mut self.0) and the match (lib.rs 205-213), inside the
\* flush() called by op; wp is the engine's pending-write offset.
flush_loop(op, w, l, c, wp) ==
    \E kind \in {"Ok", "WouldBlock", EngineError} :
        LET l2 == Append(l, Ev("eflush", kind, Len(w)))
            nx == flush_match(kind)
        IN  /\ kind = "WouldBlock" => c < MaxWB
            /\ CASE nx = "fl_last" ->
                      Leaf("fl_last", w, l2, c, wp, accepted, clean, NoResult)
                 [] nx = "fl_wb" ->
                      Leaf("fl_wb", w, l2, c + 1, wp, accepted, clean, NoResult)
                 [] nx = "return_err" ->
                      flush_failed(op, kind, w, l2, c)

\* lib.rs 194-200: the match on the result of the engine's write.
write_match(kind) ==
    IF is_would_block(kind) THEN "flush" ELSE "return"

\* io::Write::write(&mut self.0, slice) and the match (lib.rs 192-200).  The
\* caller's buffer holds the bytes accepted+1 .. accepted+cur.len; the engine
\* resumes a would-blocked write at its own offset wpend and hands the bytes
\* it takes to the bridge as records.
engine_write(len, w, l, c) ==
    \E k \in 0..(len - wpend), kind \in {"Ok", "WouldBlock", EngineError} :
        LET w2 == w \o [i \in 1..k |-> AppRec(accepted + wpend + i)]
            n == IF kind = "Ok" THEN wpend + k ELSE 0
            l2 == Append(l, Ev("write", kind, wpend + k))
        IN  /\ kind = "Ok" => wpend + k >= 1
            /\ kind = EngineError => k = 0
            /\ kind = "WouldBlock" => c < MaxWB
            /\ IF write_match(kind) = "flush"
               THEN flush_loop("write", w2, l2, c + 1, wpend + k)
               ELSE IF kind = "Ok"
               THEN Leaf("ready", w2, l2, c, 0, accepted + n, clean,
                         Ret("write", "Ok", n, ""))
               ELSE Leaf("ready", w2, l2, c, 0, accepted, FALSE,
                         Ret("write", "Err", 0, kind))

\* flush() returns Ok to its caller: flush itself, write (lib.rs 196,
\* continue) or shutdown (lib.rs 220, the transport shutdown is awaited).
flush_succeeded(w, l, c) ==
    CASE cur.op = "flush" ->
            Leaf("ready", w, l, c, wpend, accepted, clean,
                 Ret("flush", "Ok", 0, ""))
      [] cur.op = "write" -> engine_write(cur.len, w, l, c)
      [] cur.op = "shutdown" ->
            Leaf("sd_wait", w, l, c, wpend, accepted, clean, NoResult)

\* lib.rs 190-202: AsyncWrite::write up to its first await or its return.
write ==
    /\ pc = "ready"
    /\ \E len \in 1..MaxBuf :
        /\ Len(transport) + Len(wbuf) + len <= MaxBytes
        /\ cur' = [op |-> "write", len |-> len]
        /\ engine_write(len, wbuf, <<>>, 0)
    /\ UNCHANGED <<outcome, rbuf, eof, transport, recvd, entry, role, closeState, sdCalled,
                   cacheVars, codecVars>>

\* lib.rs 204-216: AsyncWrite::flush up to its first await or its return.
flush ==
    /\ pc = "ready"
    /\ cur' = [op |-> "flush", len |-> 0]
    /\ flush_loop("flush", wbuf, <<>>, 0, wpend)
    /\ UNCHANGED <<outcome, rbuf, eof, transport, recvd, entry, role, closeState, sdCalled,
                   cacheVars, codecVars>>

\* lib.rs 209: the would-block bridge flush of flush() resolves.
fl_wb_resolved ==
    /\ pc = "fl_wb"
    /\ \E f \in flush_wb_step(wbuf) :
        LET l == Append(log, Ev("flush", IF f.ok THEN "Ok" ELSE f.err, f.n))
        IN  /\ transport' = transport \o AppOnly(f.sent)
            /\ IF f.ok
               THEN flush_loop(cur.op, f.rest, l, wbCount, wpend)
               ELSE flush_failed(cur.op, f.err, f.rest, l, wbCount)
    /\ UNCHANGED <<outcome, rbuf, eof, cur, recvd, entry, role, closeState, sdCalled,
                   cacheVars, codecVars>>

\* lib.rs 214-215: the unconditional bridge flush of flush() resolves.
fl_last_resolved ==
    /\ pc = "fl_last"
    /\ \E f \in flush_last_step(wbuf) :
        LET l == Append(log, Ev("flush", IF f.ok THEN "Ok" ELSE f.err, f.n))
        IN  /\ transport' = transport \o AppOnly(f.sent)
            /\ IF f.ok
               THEN flush_succeeded(f.rest, l, wbCount)
               ELSE flush_failed(cur.op, f.err, f.rest, l, wbCount)
    /\ UNCHANGED <<outcome, rbuf, eof, cur, recvd, entry, role, closeState, sdCalled,
                   cacheVars, codecVars>>

\* Mutant of shutdown_close_state: shutdown() sends the engine's close-notify.
shutdown_sends_close_notify(cs) == "sent"

\* lib.rs 218-221: shutdown() makes no call of the engine's own shutdown;
\* the engine's close state stays what it was.
shutdown_close_state(cs) == cs

\* lib.rs 218-219: AsyncWrite::shutdown up to its first await or its return.
shutdown ==
    /\ pc = "ready"
    /\ cur' = [op |-> "shutdown", len |-> 0]
    /\ sdCalled' = TRUE
    /\ closeState' = shutdown_close_state(closeState)
    /\ flush_loop("shutdown", wbuf, <<>>, 0, wpend)
    /\ UNCHANGED <<outcome, rbuf, eof, transport, recvd, entry, role,
                   cacheVars, codecVars>>

\* lib.rs 220: the transport-level shutdown resolves.
sd_resolved ==
    /\ pc = "sd_wait"
    /\ \E r \in {""} \cup IoErrors :
        /\ log' = Append(log, Ev("shutdown", IF r = "" THEN "Ok" ELSE r, 0))
        /\ result' = IF r = "" THEN Ret("shutdown", "Ok", 0, "")
                     ELSE Ret("shutdown", "Err", 0, r)
    /\ pc' = "ready"
    /\ UNCHANGED <<outcome, wbuf, rbuf, eof, transport, wbCount, cur,
                   wpend, accepted, clean, recvd, entry, role, closeState, sdCalled,
                   cacheVars, codecVars>>

\* Mutant of release_steps: the release attempts a transport shutdown.
release_shuts_down(w) == <<Ev("shutdown", "Ok", 0)>>

\* lib.rs 113-114: SslStream has no Drop implementation; releasing it
\* releases the engine, the bridge (with what its write buffer holds) and
\* the transport, and the adapter issues no step of its own.
release_steps(w) == <<>>

\* The caller releases the Stream between two operations.
drop ==
    /\ pc = "ready"
    /\ pc' = "dropped"
    /\ cur' = [op |-> "drop", len |-> 0]
    /\ log' = release_steps(wbuf)
    /\ result' = NoResult
    /\ wbCount' = 0
    /\ UNCHANGED <<outcome, wbuf, rbuf, eof, transport, wpend, accepted,
                   clean, recvd, entry, role, closeState, sdCalled,
                   cacheVars, codecVars>>

\* ---------------------------------------------------------------- SimpleCache
\* src/quinn-boring/src/session_cache.rs.  The cache is an LruCache behind a
\* Mutex; every method locks, makes one LruCache call and unlocks.
Keys == 1..MaxKey
NoCall == [op |-> "none", key |-> 0, val |-> 0]
NoRet == [op |-> "none", key |-> 0, val |-> 0, want |-> 0, out |-> 0, lru |-> 0]
CacheEntry(k, v) == [key |-> k, val |-> v]

KeysOf(c) == {c[i].key : i \in 1..Len(c)}
KeySeq(c) == [i \in 1..Len(c) |-> c[i].key]
ValueOf(c, k) == IF k \in KeysOf(c)
                 THEN (CHOOSE e \in {c[i] : i \in 1..Len(c)} : e.key = k).val
                 ELSE 0
Without(c, k) == SelectSeq(c, LAMBDA e : e.key # k)
Reverse(q) == [i \in 1..Len(q) |-> q[Len(q) + 1 - i]]
Holders == {t \in Callers : holding[t] # NoCall}

\* Mutant of can_lock: the lock is granted while another caller holds it.
can_lock_always(h) == TRUE

\* session_cache.rs 108, 112, 116, 120: self.cache.lock() is granted when no
\* other caller holds the guard.
can_lock(h) == \A t \in Callers : h[t] = NoCall

\* Mutant of lru_put: a full cache evicts its most recently used entry.
lru_put_evicts_mru(c, cap, k, v) ==
    IF k \in KeysOf(c) THEN <<CacheEntry(k, v)>> \o Without(c, k)
    ELSE IF Len(c) >= cap THEN <<CacheEntry(k, v)>> \o SubSeq(c, 2, Len(c))
    ELSE <<CacheEntry(k, v)>> \o c

\* session_cache.rs 108: LruCache::put.  A key already cached is updated and
\* becomes the most recently used; a new key goes in as the most recently
\* used, the least recently used entry leaving a full cache.
lru_put(c, cap, k, v) ==
    IF k \in KeysOf(c) THEN <<CacheEntry(k, v)>> \o Without(c, k)
    ELSE IF Len(c) >= cap THEN <<CacheEntry(k, v)>> \o SubSeq(c, 1, cap - 1)
    ELSE <<CacheEntry(k, v)>> \o c

\* Mutant of lru_get: the lookup does not count as a use.
lru_get_peek(c, k) == [cache |-> c, val |-> ValueOf(c, k)]

\* session_cache.rs 112: LruCache::get, then cloned().  A hit makes the key
\* the most recently used.
lru_get(c, k) ==
    [cache |-> IF k \in KeysOf(c)
               THEN <<CacheEntry(k, ValueOf(c, k))>> \o Without(c, k)
               ELSE c,
     val |-> ValueOf(c, k)]

\* session_cache.rs 116: LruCache::pop
lru_pop(c, k) == Without(c, k)

\* session_cache.rs 120: LruCache::clear
lru_clear(c) == <<>>

\* History: the key whose entry a put of k has to evict, 0 when none.
LruVictim(k) ==
    IF latest[k] = 0 /\ Len(used) >= capacity /\ used # <<>> THEN used[1] ELSE 0

\* The key that left the cache c when it became d through a put of k.
Evicted(c, d, k) ==
    IF KeysOf(c) \ KeysOf(d) = {} THEN 0
    ELSE CHOOSE x \in KeysOf(c) \ KeysOf(d) : TRUE

\* session_cache.rs 99-103: SimpleCache::new(num_entries), num_entries >= 1
new ==
    /\ capacity = 0
    /\ \E n \in 1..MaxCap : capacity' = n
    /\ UNCHANGED <<cache, holding, ret, used, latest, codecVars, streamVars>>

\* A caller enters a method of the cache and takes the lock
\* (self.cache.lock().unwrap() of session_cache.rs 108, 112, 116, 120).
lock ==
    /\ capacity > 0
    /\ can_lock(holding)
    /\ \E t \in Callers, op \in {"put", "get", "remove", "clear"},
          k \in Keys, v \in Vals :
        /\ holding[t] = NoCall
        /\ op # "put" => v = 1
        /\ op = "clear" => k = 1
        /\ holding' = [holding EXCEPT ![t] =
              [op |-> op,
               key |-> IF op = "clear" THEN 0 ELSE k,
               val |-> IF op = "put" THEN v ELSE 0]]
    /\ UNCHANGED <<capacity, cache, ret, used, latest, codecVars, streamVars>>

\* session_cache.rs 107-109: put makes its LruCache call and drops the guard.
put ==
    \E t \in Callers :
        LET k == holding[t].key
            v == holding[t].val
            d == lru_put(cache, capacity, k, v)
            victim == LruVictim(k)
        IN  /\ holding[t].op = "put"
            /\ cache' = d
            /\ holding' = [holding EXCEPT ![t] = NoCall]
            /\ ret' = [op |-> "put", key |-> k, val |-> 0, want |-> 0,
                       out |-> Evicted(cache, d, k), lru |-> victim]
            /\ used' = SelectSeq(used, LAMBDA x : x # k /\ x # victim) \o <<k>>
            /\ latest' = [x \in Keys |->
                            IF x = k THEN v
                            ELSE IF x = victim THEN 0
                            ELSE latest[x]]
            /\ UNCHANGED <<capacity, codecVars, streamVars>>

\* session_cache.rs 111-113: get makes its LruCache call and drops the guard.
get ==
    \E t \in Callers :
        LET k == holding[t].key
            g == lru_get(cache, k)
        IN  /\ holding[t].op = "get"
            /\ cache' = g.cache
            /\ holding' = [holding EXCEPT ![t] = NoCall]
            /\ ret' = [op |-> "get", key |-> k, val |-> g.val,
                       want |-> latest[k], out |-> 0, lru |-> 0]
            /\ used' = IF latest[k] = 0 THEN used
                       ELSE SelectSeq(used, LAMBDA x : x # k) \o <<k>>
            /\ UNCHANGED <<capacity, latest, codecVars, streamVars>>

\* session_cache.rs 115-117: remove makes its LruCache call and drops the
\* guard.
remove ==
    \E t \in Callers :
        LET k == holding[t].key
        IN  /\ holding[t].op = "remove"
            /\ cache' = lru_pop(cache, k)
            /\ holding' = [holding EXCEPT ![t] = NoCall]
            /\ ret' = [op |-> "remove", key |-> k, val |-> 0, want |-> 0,
                       out |-> 0, lru |-> 0]
            /\ used' = SelectSeq(used, LAMBDA x : x # k)
            /\ latest' = [latest EXCEPT ![k] = 0]
            /\ UNCHANGED <<capacity, codecVars, streamVars>>

\* session_cache.rs 119-121: clear makes its LruCache call and drops the
\* guard.
clear ==
    \E t \in Callers :
        /\ holding[t].op = "clear"
        /\ cache' = lru_clear(cache)
        /\ holding' = [holding EXCEPT ![t] = NoCall]
        /\ ret' = [op |-> "clear", key |-> 0, val |-> 0, want |-> 0,
                   out |-> 0, lru |-> 0]
        /\ used' = <<>>
        /\ latest' = [x \in Keys |-> 0]
        /\ UNCHANGED <<capacity, codecVars, streamVars>>

\* ---------------------------------------------------------------- Entry
\* src/quinn-boring/src/session_cache.rs 27-77.  A cache value is a sequence
\* of bytes: an 8-byte big-endian length, the encoded session, an 8-byte
\* big-endian length, the encoded transport parameters.
SessionByte == 1
ParamsByte == 2
Bytes == 0..3

\* session_cache.rs 45, 55: BufMut::put_u64 of a length below 256
put_u64(n) == <<0, 0, 0, 0, 0, 0, 0, n>>

\* session_cache.rs 64, 69: Buf::get_u64 on at least 8 bytes, as usize.  A
\* value with one of its four high bytes set exceeds every length here.
get_u64(b) ==
    IF \E i \in 1..4 : b[i] # 0 THEN 2147483647
    ELSE ((b[5] * 256 + b[6]) * 256 + b[7]) * 256 + b[8]

\* session_cache.rs 42: SslSession::encode of a session of n bytes
session_encode(n) == [i \in 1..n |-> SessionByte]

\* session_cache.rs 54: TransportParameters::write of n bytes
params_write(n) == [i \in 1..n |-> ParamsByte]

\* session_cache.rs 66: SslSession::decode accepts what session_encode wrote.
session_decode_ok(b) ==
    Len(b) >= 1 /\ \A i \in 1..Len(b) : b[i] = SessionByte

\* session_cache.rs 71-73: TransportParameters::read accepts what
\* params_write wrote.
params_read_ok(b) == \A i \in 1..Len(b) : b[i] = ParamsByte

\* session_cache.rs 34-59: Entry::encode
encode_entry(sn, pn) ==
    put_u64(sn) \o session_encode(sn) \o put_u64(pn) \o params_write(pn)

DropFirst(b, n) == SubSeq(b, n + 1, Len(b))

\* session_cache.rs 62-76: Entry::decode.  Buf::get_u64 panics when fewer
\* than 8 bytes remain and Bytes::split_to panics when the length exceeds
\* what remains; the two decoders report their failures as errors.
decode_entry(b) ==
    IF Len(b) < 8 THEN "Panic"
    ELSE LET len == get_u64(b)
             r1 == DropFirst(b, 8)
         IN  IF len > Len(r1) THEN "Panic"
             ELSE IF ~session_decode_ok(SubSeq(r1, 1, len)) THEN "Err"
             ELSE LET r2 == DropFirst(r1, len)
                  IN  IF Len(r2) < 8 THEN "Panic"
                      ELSE LET len2 == get_u64(r2)
                               r3 == DropFirst(r2, 8)
                           IN  IF len2 > Len(r3) THEN "Panic"
                               ELSE IF ~params_read_ok(SubSeq(r3, 1, len2))
                               THEN "Err"
                               ELSE "Ok"

\* session_cache.rs 34-59: an Entry is encoded into a cache value.
encode ==
    /\ \E sn \in 1..MaxField, pn \in 0..MaxField :
          encoded' = encode_entry(sn, pn)
    /\ decoded' = "none"
    /\ UNCHANGED <<cacheVars, streamVars>>

\* session_cache.rs 16: the value a SessionCache returns is whatever its
\* implementation holds for the key: here an encoded Entry cut short, or
\* with one byte changed.
get_malformed ==
    /\ \E sn \in 1..MaxField, pn \in 0..MaxField :
          LET good == encode_entry(sn, pn)
          IN  \/ \E n \in 0..(Len(good) - 1) : encoded' = SubSeq(good, 1, n)
              \/ \E i \in 1..Len(good), x \in Bytes :
                    /\ x # good[i]
                    /\ encoded' = [good EXCEPT ![i] = x]
    /\ decoded' = "none"
    /\ UNCHANGED <<cacheVars, streamVars>>

\* session_cache.rs 62-76: Entry::decode is called on the cache value.
decode ==
    /\ decoded = "none"
    /\ decoded' = decode_entry(encoded)
    /\ UNCHANGED <<encoded, cacheVars, streamVars>>

Init ==
    /\ pc = "init"
    /\ outcome = NoOutcome
    /\ wbuf = <<>>
    /\ rbuf = <<>>
    /\ eof = FALSE
    /\ transport = <<>>
    /\ log = <<>>
    /\ wbCount = 0
    /\ cur = NoOp
    /\ wpend = 0
    /\ accepted = 0
    /\ clean = TRUE
    /\ result = NoResult
    /\ recvd = 0
    /\ entry = "none"
    /\ role = "none"
    /\ closeState = "open"
    /\ sdCalled = FALSE
    /\ capacity = 0
    /\ cache = <<>>
    /\ holding = [t \in Callers |-> NoCall]
    /\ ret = NoRet
    /\ used = <<>>
    /\ latest = [k \in Keys |-> 0]
    /\ encoded = <<>>
    /\ decoded = "none"

Next ==
    \/ connect
    \/ hs_flush_resolved
    \/ hs_fill_resolved
    \/ hs_final_resolved
    \/ read
    \/ rd_fill_resolved
    \/ write
    \/ flush
    \/ fl_wb_resolved
    \/ fl_last_resolved
    \/ shutdown
    \/ sd_resolved
    \/ drop

Spec == Init /\ [][Next]_vars

\* The handshake driver alone, from each of its four entry points.  The task
\* that awaits a handshake is polled again whenever its pending bridge
\* operation resolves, so a step that is enabled is eventually taken.
HsNext ==
    \/ connect
    \/ accept
    \/ builder_accept
    \/ builder_connect
    \/ hs_flush_resolved
    \/ hs_fill_resolved
    \/ hs_final_resolved

HsSpec == Init /\ [][HsNext]_vars /\ WF_vars(HsNext)

\* The session cache alone, used by concurrent callers.
CacheNext ==
    \/ new
    \/ lock
    \/ put
    \/ get
    \/ remove
    \/ clear

CacheSpec == Init /\ [][CacheNext]_vars

\* Entry::encode and Entry::decode alone.
CodecNext ==
    \/ encode
    \/ get_malformed
    \/ decode

CodecSpec == Init /\ [][CodecNext]_vars

\* ================================================================ claims
\* Until the first Stream operation starts the log is the log of the handshake attempt.
HsPhase == cur.op = "none"
HsReturned == HsPhase /\ pc \in {"ready", "hs_returned"}
IsDone(e) == e.op = "handshake" /\ e.r = "Done"
IsZeroFlush(e) == e.op = "flush" /\ e.r = "Ok" /\ e.n = 0
IsFailedStep(e) == e.op \in {"flush", "fill", "shutdown"} /\ e.r # "Ok"
DoneIdx == {i \in 1..Len(log) : IsDone(log[i])}
DonePos == IF DoneIdx = {} THEN 0 ELSE CHOOSE i \in DoneIdx : TRUE
BeforeDone == SubSeq(log, 1, DonePos - 1)
AfterDone == SubSeq(log, DonePos + 1, Len(log))

\* C1 (as stated): a handshake with k would-blocks that returns Connected
\* performed exactly k transport steps before Done and one flush after it.
C1_original ==
    (HsPhase /\ outcome = Connected) =>
        /\ DonePos > 0
        /\ Count(BeforeDone, IsTransportStep) = Count(log, IsWB)
        /\ Ops(AfterDone) = <<"flush">>

\* C1 (amended): a handshake with k would-blocks that returns Connected
\* performed exactly k bridge flushes before Done, plus one fill for each
\* of those flushes that reported zero bytes (k to 2k transport steps),
\* and exactly one flush after Done.
C1_amended ==
    (HsPhase /\ outcome = Connected) =>
        /\ DonePos > 0
        /\ Count(BeforeDone, IsFlush) = Count(log, IsWB)
        /\ Count(BeforeDone, IsFill) = Count(BeforeDone, IsZeroFlush)
        /\ Count(BeforeDone, IsTransportStep) >= Count(log, IsWB)
        /\ Count(BeforeDone, IsTransportStep) <= 2 * Count(log, IsWB)
        /\ Ops(AfterDone) = <<"flush">>

C1_witness ==
    /\ HsPhase
    /\ outcome = Connected
    /\ Count(log, IsWB) = 3
    /\ Count(BeforeDone, IsFill) = 2
    /\ Count(BeforeDone, IsTransportStep) = 5

\* The engine trace of C2: would-block with a non-empty write buffer twice,
\* would-block with an empty write buffer, Done; no transport step fails.
ScenarioC2 ==
    /\ HsReturned
    /\ LET e == EngineCalls(log)
       IN  /\ Len(e) = 4
           /\ e[1].r = "WouldBlock" /\ e[1].n > 0
           /\ e[2].r = "WouldBlock" /\ e[2].n > 0
           /\ e[3].r = "WouldBlock" /\ e[3].n = 0
           /\ e[4].r = "Done"
    /\ \A i \in 1..Len(log) : ~IsFailedStep(log[i])

\* C2 (as stated): on that trace the transport steps are exactly flush,
\* flush, fill and the trailing flush, and the outcome is Connected.
C2_original ==
    ScenarioC2 =>
        /\ Ops(TransportSteps(log)) = <<"flush", "flush", "fill", "flush">>
        /\ outcome = Connected

\* C2 (amended): on that trace the transport steps are exactly flush, flush,
\* flush (reporting zero bytes), fill and the trailing flush, and the
\* outcome is Connected.
C2_amended ==
    ScenarioC2 =>
        /\ Ops(TransportSteps(log)) =
              <<"flush", "flush", "flush", "fill", "flush">>
        /\ IsZeroFlush(TransportSteps(log)[3])
        /\ outcome = Connected

C2_witness == ScenarioC2 /\ outcome = Connected

\* The events between the engine call at i and the next engine call, for a
\* would-block at i whose loop iteration reached the retry.
NextCall(i) ==
    IF \E j \in (i + 1)..Len(log) : IsEngineCall(log[j])
    THEN CHOOSE j \in (i + 1)..Len(log) :
            /\ IsEngineCall(log[j])
            /\ \A m \in (i + 1)..(j - 1) : ~IsEngineCall(log[m])
    ELSE 0
Between(i, j) == Ops(SubSeq(log, i + 1, j - 1))
HsWB(i) == log[i].op = "handshake" /\ log[i].r = "WouldBlock"

\* C3 (as stated): on a handshake would-block the driver calls flush and no
\* fill when the write buffer is non-empty, fill and no flush when it is
\* empty, then retries the engine.
C3_original ==
    HsPhase =>
        \A i \in 1..Len(log) :
            (HsWB(i) /\ NextCall(i) > 0) =>
                Between(i, NextCall(i)) =
                    IF log[i].n > 0 THEN <<"flush">> ELSE <<"fill">>

\* C3 (amended): on a handshake would-block the driver always calls flush
\* first; when the write buffer was non-empty (the flush reports one or
\* more bytes) it calls no fill, when it was empty (the flush reports zero)
\* it then calls fill; then it retries the engine.
C3_amended ==
    HsPhase =>
        \A i \in 1..Len(log) :
            (HsWB(i) /\ NextCall(i) > 0) =>
                /\ Between(i, NextCall(i)) =
                      IF log[i].n > 0 THEN <<"flush">> ELSE <<"flush", "fill">>
                /\ log[NextCall(i)].op = "handshake"
                /\ (log[i + 1].n = 0) = (log[i].n = 0)

C3_witness ==
    /\ HsPhase
    /\ \E i, j \in 1..Len(log) :
        /\ HsWB(i) /\ log[i].n > 0 /\ NextCall(i) = i + 2
        /\ HsWB(j) /\ log[j].n = 0 /\ NextCall(j) = j + 3

\* C4 (as stated): after a flush that reported zero bytes and an engine
\* retry that still reports would-block, the next transport step is fill.
C4_original ==
    HsPhase =>
        \A i \in 1..Len(log) :
            (/\ IsZeroFlush(log[i])
             /\ NextCall(i) > 0
             /\ HsWB(NextCall(i))
             /\ NextCall(i) < Len(log)) =>
                log[NextCall(i) + 1].op = "fill"

\* C4 (amended): a would-block flush that reports zero bytes is followed in
\* the same loop iteration by a fill, before the engine is retried; if the
\* retry still reports would-block the next iteration starts with a flush
\* again.  Two flushes are never issued back to back without an engine call
\* between them, so the driver does not busy-loop on flush.
C4_amended ==
    HsPhase =>
        \A i \in 1..Len(log) :
            /\ (IsZeroFlush(log[i]) /\ i > 1 /\ HsWB(i - 1)) =>
                  IF i = Len(log) THEN pc = "hs_fill"
                  ELSE log[i + 1].op = "fill"
            /\ (IsZeroFlush(log[i]) /\ NextCall(i) > 0 /\ HsWB(NextCall(i))
                  /\ NextCall(i) < Len(log)) =>
                  log[NextCall(i) + 1].op = "flush"
            /\ (IsFlush(log[i]) /\ i < Len(log)) => ~IsFlush(log[i + 1])

C4_witness ==
    /\ HsPhase
    /\ \E i \in 1..Len(log) :
        /\ i + 3 <= Len(log)
        /\ IsZeroFlush(log[i])
        /\ log[i + 1].op = "fill"
        /\ HsWB(i + 2)
        /\ log[i + 3].op = "flush"

\* C5: when the engine's handshake call reports Done the driver awaits
\* exactly one bridge flush, makes no engine call after Done, and returns
\* Connected only when that flush succeeded (Io when it failed); Connected
\* is never returned without the Done and the successful trailing flush.
C5_TrailingFlush ==
    HsPhase =>
        /\ \A i \in 1..Len(log) :
              IsDone(log[i]) =>
                 /\ IF i = Len(log) THEN pc = "hs_final"
                    ELSE /\ Len(log) = i + 1
                         /\ log[i + 1].op = "flush"
                         /\ pc \in {"ready", "hs_returned"}
                         /\ outcome = IF log[i + 1].r = "Ok" THEN Connected
                                      ELSE Io(log[i + 1].r)
        /\ outcome = Connected =>
              /\ Len(log) >= 2
              /\ IsDone(log[Len(log) - 1])
              /\ log[Len(log)].op = "flush" /\ log[Len(log)].r = "Ok"
              /\ wbuf = <<>>

C5_witness ==
    /\ HsPhase
    /\ outcome = Connected
    /\ log[Len(log)].op = "flush" /\ log[Len(log)].n > 0
    /\ Count(log, IsWB) >= 1

\* C6: a Failure or SetupFailure of the engine's handshake call ends the
\* attempt at once with that failure: it is the last event of the attempt
\* (no flush, no fill, no further engine call follows), and a SetupFailure
\* of the first call is returned with no transport step and no byte sent.
IsTerminalFailure(e) ==
    e.op = "handshake" /\ e.r \in {"Failure", "SetupFailure"}

C6_FailureImmediate ==
    HsPhase =>
        /\ \A i \in 1..Len(log) :
              IsTerminalFailure(log[i]) =>
                 /\ i = Len(log)
                 /\ pc = "hs_returned"
                 /\ outcome = Inner(log[i].r)
                 /\ (log[i].r = "SetupFailure" /\ i = 1) =>
                        (TransportSteps(log) = <<>> /\ Len(log) = 1)
        /\ outcome.tag = "Inner" =>
              (Len(log) >= 1 /\ IsTerminalFailure(log[Len(log)]))

C6_witness ==
    /\ HsPhase
    /\ outcome = Inner("Failure")
    /\ Count(log, IsTransportStep) >= 3

\* C7: a failed transport step of the handshake driver (would-block flush,
\* fill or trailing flush) ends the attempt at once with Io carrying that
\* error: it is the last event, the outcome is neither Connected nor an
\* engine failure; and Io is produced only by a failed transport step.
C7_IoImmediate ==
    HsPhase =>
        /\ \A i \in 1..Len(log) :
              (IsTransportStep(log[i]) /\ log[i].r # "Ok") =>
                 /\ i = Len(log)
                 /\ pc = "hs_returned"
                 /\ outcome = Io(log[i].r)
        /\ outcome.tag = "Io" =>
              /\ Len(log) >= 1
              /\ IsTransportStep(log[Len(log)])
              /\ log[Len(log)].r \in IoErrors
              /\ outcome.detail = log[Len(log)].r

C7_witness ==
    /\ HsPhase
    /\ outcome = Io("ConnectionReset")
    /\ log[Len(log)].op = "fill"
    /\ Count(log, IsWB) >= 2

\* C8 (as stated): a shutdown() whose internal flush() failed has attempted
\* the transport-level shutdown exactly once and returns the flush error.
IsShutdownStep(e) == e.op = "shutdown"
IsFlushFailure(e) ==
    \/ (e.op = "flush" /\ e.r # "Ok")
    \/ (e.op = "eflush" /\ e.r = EngineError)

C8_original ==
    (pc = "ready" /\ result.op = "shutdown"
        /\ \E i \in 1..Len(log) : IsFlushFailure(log[i])) =>
        /\ Count(log, IsShutdownStep) = 1
        /\ result.kind = "Err"
        /\ \E i \in 1..Len(log) : IsFlushFailure(log[i]) /\ result.err = log[i].r

\* C9: no result handed to the caller is would-block.  The handshake
\* outcome is Connected, an engine failure or Io; a Stream operation
\* returns Ok or an error that is an engine error or a transport error.
\* An engine would-block never ends the operation: it is followed by the
\* bridge step of its loop (flush for handshake and flush(), fill for
\* read(), the adapter-level flush() for write()), and an operation that
\* returned success after a would-block has retried the same engine call
\* after a successful bridge step.
Recovery(op) ==
    CASE op = "handshake" -> {"flush"}
      [] op = "read" -> {"fill"}
      [] op = "eflush" -> {"flush"}
      [] op = "write" -> {"eflush"}

OpSucceeded ==
    /\ pc = "ready"
    /\ IF HsPhase THEN outcome = Connected ELSE result.kind = "Ok"

C9_NoWouldBlock ==
    /\ outcome.tag \in {"None", "Connected", "Inner", "Io"}
    /\ outcome.detail \in {"", "Failure", "SetupFailure"} \cup IoErrors
    /\ result.kind \in {"None", "Ok", "Err"}
    /\ result.err \in {"", EngineError} \cup IoErrors
    /\ \A i \in 1..Len(log) :
          IsWB(log[i]) =>
             /\ IF i = Len(log) THEN pc \in {"hs_flush", "rd_fill", "fl_wb"}
                ELSE log[i + 1].op \in Recovery(log[i].op)
             /\ OpSucceeded =>
                   \E j \in (i + 1)..Len(log) :
                      /\ log[j].op = log[i].op
                      /\ \E t \in (i + 1)..(j - 1) :
                            IsTransportStep(log[t]) /\ log[t].r = "Ok"

C9_witness ==
    /\ pc = "ready"
    /\ result.op = "write" /\ result.kind = "Ok"
    /\ Count(log, IsWB) = 3
    /\ \E i \in 1..Len(log) : log[i].op = "eflush" /\ log[i].r = "WouldBlock"

\* C10: after writes that all returned Ok, accepting accepted bytes in
\* total, and a flush() that returned Ok, the application records the
\* transport has observed are exactly the bytes 1..accepted, each once and
\* in order, and nothing is left in the bridge write buffer.
AppBytes(t) == [i \in 1..Len(t) |-> t[i].byte]

FlushedOk == pc = "ready" /\ result.op = "flush" /\ result.kind = "Ok"

C10_ExactlyOnceInOrder ==
    (FlushedOk /\ clean) =>
        /\ AppBytes(transport) = [i \in 1..accepted |-> i]
        /\ wbuf = <<>>

C10_witness ==
    /\ FlushedOk /\ clean
    /\ accepted >= 3
    /\ Count(log, IsWB) >= 1

\* The write of C11, scaled to units of 500 bytes: write(3 units) on a
\* Stream that has written nothing before; the first engine write takes 1
\* unit and reports would-block, the engine's flush reports success at
\* once, the second engine write takes the remaining 2 units and succeeds.
IsWriteCall(e) == e.op = "write"
ScenarioC11 ==
    /\ pc = "ready"
    /\ cur = [op |-> "write", len |-> 3]
    /\ result = Ret("write", "Ok", 3, "")
    /\ accepted = 3 /\ clean
    /\ Len(log) >= 1
    /\ log[1] = Ev("write", "WouldBlock", 1)
    /\ Count(log, IsWB) = 1
    /\ \A i \in 1..Len(log) :
          /\ log[i].op = "eflush" => log[i].r = "Ok"
          /\ ~IsFailedStep(log[i])

\* C11 (as stated): exactly one bridge flush before the second engine write,
\* two engine writes, the second accounting for the remaining bytes, and
\* the transport has observed all 1500 bytes when write() returns.
C11_original ==
    ScenarioC11 =>
        /\ Ops(log) = <<"write", "eflush", "flush", "write">>
        /\ log[4] = Ev("write", "Ok", 3)
        /\ AppBytes(transport) = <<1, 2, 3>>

\* C11 (amended): exactly one bridge flush before the second engine write,
\* two engine writes, the second accounting for the remaining bytes and
\* write() returning 1500; when write() returns the transport has observed
\* the 500 bytes flushed in between, and the remaining 1000 bytes are in
\* the bridge write buffer, in order, until the next flush.
C11_amended ==
    ScenarioC11 =>
        /\ Ops(log) = <<"write", "eflush", "flush", "write">>
        /\ log[3] = Ev("flush", "Ok", 1)
        /\ log[4] = Ev("write", "Ok", 3)
        /\ AppBytes(transport) = <<1>>
        /\ AppBytes(wbuf) = <<2, 3>>

C11_witness == ScenarioC11 /\ Len(log) = 4

\* The events between the engine call at i and the next engine call (or
\* the end of the log).
StepsAfter(i) ==
    IF NextCall(i) > 0 THEN Between(i, NextCall(i))
    ELSE Ops(SubSeq(log, i + 1, Len(log)))
CallComplete(i) == NextCall(i) > 0 \/ pc \in {"ready", "hs_returned"}

\* The transport steps the engine asked for with the result at i: a fill
\* for a would-block that needs peer bytes (read, or handshake with an empty
\* write buffer), a flush for one that needs delivery (write, flush, or
\* handshake with a non-empty write buffer), nothing otherwise.
Requested(e) ==
    IF e.r # "WouldBlock" THEN <<>>
    ELSE IF e.op = "read" \/ (e.op = "handshake" /\ e.n = 0) THEN <<"fill">>
    ELSE <<"flush">>
RECURSIVE RequestedSeq(_)
RequestedSeq(l) ==
    IF l = <<>> THEN <<>>
    ELSE RequestedSeq(SubSeq(l, 1, Len(l) - 1)) \o
         (IF IsEngineCall(l[Len(l)]) THEN Requested(l[Len(l)]) ELSE <<>>)

OpReturnedOk ==
    /\ pc = "ready"
    /\ IF HsPhase THEN outcome = Connected
       ELSE result.kind = "Ok" /\ cur.op \in {"read", "write", "flush"}

\* C13 (as stated): the fill and flush calls of an operation are exactly the
\* ones the engine requested with its would-block results, in order.
C13_original ==
    OpReturnedOk => Ops(TransportSteps(log)) = RequestedSeq(log)

\* C13 (amended): the fill and flush calls that follow an engine call are
\* fixed by the result of that call alone, in this order and with nothing
\* carried over between calls or operations: after a handshake would-block
\* one flush, and one fill when that flush reported zero bytes; after
\* handshake Done one flush; after a would-block of read one fill; after a
\* would-block of the engine's flush one flush; after success of the
\* engine's flush one flush; after a would-block of write none before the
\* engine's flush is called; after any other result none.  The engine's
\* requested steps are among them in order, the zero-byte flush before a
\* handshake fill and the flush after each success are added.
Issued(i) ==
    LET e == log[i]
    IN  CASE e.op = "handshake" /\ e.r = "WouldBlock" ->
                IF e.n > 0 THEN <<"flush">> ELSE <<"flush", "fill">>
          [] e.op = "handshake" /\ e.r = "Done" -> <<"flush">>
          [] e.op = "read" /\ e.r = "WouldBlock" -> <<"fill">>
          [] e.op = "eflush" /\ e.r \in {"WouldBlock", "Ok"} -> <<"flush">>
          [] OTHER -> <<>>

C13_amended ==
    /\ log # <<>> => IsEngineCall(log[1])
    /\ \A i \in 1..Len(log) :
          (IsEngineCall(log[i]) /\ CallComplete(i)
               /\ \A j \in (i + 1)..Len(log) : ~IsFailedStep(log[j])) =>
             LET s == StepsAfter(i)
             IN  IF cur.op = "shutdown" /\ NextCall(i) = 0 /\ pc = "ready"
                      /\ result.kind = "Ok"
                 THEN s = Issued(i) \o <<"shutdown">>
                 ELSE s = Issued(i)

C13_witness ==
    /\ OpReturnedOk
    /\ cur.op = "write"
    /\ Ops(TransportSteps(log)) = <<"flush", "flush">>
    /\ RequestedSeq(log) = <<"flush", "flush">>
    /\ Count(log, IsWB) = 2

\* C20: in a flush() every would-block of the engine's flush is followed
\* by one bridge flush and a new engine call, success of the engine's flush
\* by exactly one more bridge flush, after which flush() returns Ok: w
\* would-blocks give w + 1 bridge flushes.  An engine error and a failed
\* bridge flush are the last event and the error flush() returns.
IsEngineFlush(e) == e.op = "eflush"
InFlush == cur.op = "flush"
FlushReturned == InFlush /\ pc = "ready"

C20_FlushSteps ==
    InFlush =>
        /\ \A i \in 1..Len(log) :
              /\ (log[i].op = "eflush" /\ log[i].r = "WouldBlock") =>
                    IF i = Len(log) THEN pc = "fl_wb"
                    ELSE /\ log[i + 1].op = "flush"
                         /\ (log[i + 1].r = "Ok" =>
                                (i + 2 <= Len(log) /\ log[i + 2].op = "eflush"))
              /\ (log[i].op = "eflush" /\ log[i].r = "Ok") =>
                    IF i = Len(log) THEN pc = "fl_last"
                    ELSE Len(log) = i + 1 /\ log[i + 1].op = "flush"
              /\ (log[i].op = "eflush" /\ log[i].r = EngineError) =>
                    /\ i = Len(log)
                    /\ result = Ret("flush", "Err", 0, EngineError)
              /\ (log[i].op = "flush" /\ log[i].r # "Ok") =>
                    /\ i = Len(log)
                    /\ result = Ret("flush", "Err", 0, log[i].r)
        /\ (pc = "ready" /\ result.kind = "Ok") =>
              /\ result = Ret("flush", "Ok", 0, "")
              /\ Count(log, IsFlush) = Count(log, IsWB) + 1
              /\ Count(log, IsEngineFlush) = Count(log, IsWB) + 1
              /\ log[Len(log)].op = "flush" /\ log[Len(log)].r = "Ok"
              /\ log[Len(log) - 1] = Ev("eflush", "Ok", log[Len(log)].n)
        /\ (pc = "ready" /\ result.kind = "Err") =>
              (log[Len(log)].r = result.err /\ log[Len(log)].r # "Ok")

C20_witness ==
    /\ FlushReturned
    /\ result.kind = "Ok"
    /\ Count(log, IsWB) = 2
    /\ Count(log, IsFlush) = 3
    /\ \E i \in 1..Len(log) : IsFlush(log[i]) /\ log[i].n > 0

InRead == cur.op = "read"
LastEv == log[Len(log)]

\* C14: a read() issued while the engine has no data (its read reports
\* would-block) never returns on that result: the would-block is followed
\* by a bridge fill, and the read is suspended in it until it resolves; a
\* successful fill is followed by another engine read.  What read() returns
\* is what the engine's last read reported (0 bytes only at end of stream)
\* or the error of the fill that failed, for every read() of the run.
C14_ReadWaits ==
    InRead =>
        /\ \A i \in 1..Len(log) :
            /\ (log[i].op = "read" /\ log[i].r = "WouldBlock") =>
                  IF i = Len(log)
                  THEN pc = "rd_fill" /\ result = NoResult
                  ELSE IsFill(log[i + 1])
            /\ (IsFill(log[i]) /\ log[i].r = "Ok") =>
                  i < Len(log) /\ log[i + 1].op = "read"
        /\ pc \in {"ready", "rd_fill"}
        /\ pc = "ready" => result.op = "read" /\ result.kind \in {"Ok", "Err"}
        /\ (pc = "ready" /\ result.kind = "Ok") =>
              /\ LastEv = Ev("read", "Ok", result.n)
              /\ result.n = 0 => eof
        /\ (pc = "ready" /\ result.kind = "Err") =>
              /\ LastEv.r = result.err
              /\ \/ LastEv.op = "read" /\ LastEv.r = EngineError
                 \/ LastEv.op = "fill" /\ LastEv.r \in IoErrors

\* A later read(), issued after an earlier one consumed everything that had
\* arrived, is suspended in its fill.
C14_witness ==
    /\ InRead
    /\ pc = "rd_fill"
    /\ recvd = 1
    /\ rbuf = <<>>
    /\ log = <<Ev("read", "WouldBlock", 0)>>

C16_ShutdownOrder ==
    /\ closeState = "open"
    /\ \A i \in 1..Len(log) :
          IsShutdownStep(log[i]) => i = Len(log) /\ cur.op = "shutdown"
    /\ (cur.op = "shutdown" /\ pc = "ready" /\ result.kind = "Ok") =>
          /\ Len(log) >= 3
          /\ log[1].op = "eflush"
          /\ LastEv = Ev("shutdown", "Ok", 0)
          /\ Count(log, IsShutdownStep) = 1
          /\ IsFlush(log[Len(log) - 1]) /\ log[Len(log) - 1].r = "Ok"
          /\ log[Len(log) - 2].op = "eflush" /\ log[Len(log) - 2].r = "Ok"
          /\ Count(log, IsFlush) = Count(log, IsWB) + 1
          /\ \A i \in 1..Len(log) : log[i].op \in {"eflush", "flush", "shutdown"}

C16_witness ==
    /\ cur.op = "shutdown"
    /\ result = Ret("shutdown", "Ok", 0, "")
    /\ Count(log, IsWB) = 1
    /\ Len(log) = 5
    /\ wbuf = <<>>
    /\ Len(transport) = 2

\* The outcome of a handshake attempt is what its last step decided.
HsJustified ==
    HsPhase =>
        /\ pc \in {"init", "hs_flush", "hs_fill", "hs_final"} => outcome = NoOutcome
        /\ outcome # NoOutcome => pc \in {"ready", "hs_returned"}
        /\ outcome = Connected =>
              /\ Len(log) >= 2
              /\ IsDone(log[Len(log) - 1])
              /\ IsFlush(LastEv) /\ LastEv.r = "Ok"
        /\ outcome.tag = "Inner" =>
              /\ LastEv.op = "handshake"
              /\ LastEv.r \in {"Failure", "SetupFailure"}
              /\ outcome.detail = LastEv.r
        /\ outcome.tag = "Io" =>
              /\ IsTransportStep(LastEv)
              /\ LastEv.r \in IoErrors
              /\ outcome.detail = LastEv.r

\* C17: a handshake attempt returns only on the engine's Done (Connected,
\* after the trailing flush succeeded), on the engine's failure (Inner) or
\* on a failed transport step (Io), never by itself; an outcome once
\* produced is never replaced; and when every pending transport step
\* resolves and the engine would-blocks finitely often, the attempt
\* eventually produces its outcome.
C17_OutcomeOnce ==
    /\ []HsJustified
    /\ [][outcome # NoOutcome => outcome' = outcome]_vars
    /\ <>(outcome # NoOutcome)

C17_witness ==
    /\ HsReturned
    /\ entry = "accept"
    /\ outcome.tag = "Io"
    /\ Count(log, IsWB) = 2
    /\ IsFill(LastEv)

\* C18 (as stated): every entry point starts the engine in the role it is
\* named for: accept and SslStreamBuilder::accept a server, connect and
\* SslStreamBuilder::connect a client.
C18_original ==
    /\ entry \in {"accept", "SslStreamBuilder::accept"} => role = "server"
    /\ entry \in {"connect", "SslStreamBuilder::connect"} => role = "client"

IsReadCall(e) == e.op = "read"

\* C21: the calls of one read() alternate engine read and bridge fill and
\* begin with an engine read: each would-block of the engine is followed by
\* exactly one fill and each successful fill by a fresh engine read.  A
\* successful engine read is the last call and its count is returned
\* unchanged; an engine error other than would-block is the last call and
\* is returned; a failed fill is the last call and its error is returned;
\* no bridge flush is made.
C21_ReadSteps ==
    InRead =>
        /\ Len(log) >= 1
        /\ \A i \in 1..Len(log) :
            /\ log[i].op = (IF i % 2 = 1 THEN "read" ELSE "fill")
            /\ i < Len(log) =>
                  /\ IsReadCall(log[i]) => log[i].r = "WouldBlock"
                  /\ IsFill(log[i]) => log[i].r = "Ok"
        /\ Count(log, IsFlush) = 0
        /\ Count(log, IsFill) =
              Count(log, IsWB) - (IF pc = "rd_fill" THEN 1 ELSE 0)
        /\ pc = "rd_fill" <=> (IsReadCall(LastEv) /\ LastEv.r = "WouldBlock")
        /\ (IsReadCall(LastEv) /\ LastEv.r = "Ok") =>
              result = Ret("read", "Ok", LastEv.n, "")
        /\ (IsReadCall(LastEv) /\ LastEv.r = EngineError) =>
              result = Ret("read", "Err", 0, EngineError)
        /\ (IsFill(LastEv) /\ LastEv.r # "Ok") =>
              result = Ret("read", "Err", 0, LastEv.r)

\* A read() that returns the engine's count after two would-blocks.
C21_witness ==
    /\ InRead
    /\ result = Ret("read", "Ok", 1, "")
    /\ Count(log, IsWB) = 2
    /\ Count(log, IsFill) = 2
    /\ Len(log) = 5

\* C22: in the handshake driver every fill comes right after a flush that
\* reported zero bytes, and is awaited with an empty bridge write buffer; a
\* flush that delivered one or more bytes is followed by the engine's retry
\* (or, after Done, by the return), never by a fill.
C22_FillOnlyWhenEmpty ==
    HsPhase =>
        /\ pc = "hs_fill" => wbuf = <<>> /\ IsZeroFlush(LastEv)
        /\ \A i \in 1..Len(log) :
            /\ IsFill(log[i]) => i > 1 /\ IsZeroFlush(log[i - 1])
            /\ (IsFlush(log[i]) /\ log[i].r = "Ok" /\ log[i].n > 0) =>
                  IF i = Len(log)
                  THEN IsDone(log[i - 1]) /\ outcome = Connected
                  ELSE log[i + 1].op = "handshake"

\* The driver waits in a fill after a zero-byte flush, having retried the
\* engine directly after an earlier flush that delivered bytes.
C22_witness ==
    /\ HsPhase
    /\ pc = "hs_fill"
    /\ Len(log) = 4
    /\ IsFlush(log[2]) /\ log[2].n > 0
    /\ log[3].op = "handshake"
    /\ IsZeroFlush(log[4])

\* C23 (as stated): read() is never suspended in a bridge fill while the
\* bridge write buffer holds records not yet delivered to the transport.
C23_original ==
    pc = "rd_fill" => wbuf = <<>>

\* C24: a SimpleCache created for n >= 1 entries never holds more than n
\* entries, whatever the interleaving of its callers, and holds each key at
\* most once; its entries are the live keys in the order of their last use
\* (put or get), so that the entry a put evicts from a full cache is the
\* least recently used one and no other; every cached value, and every value
\* get returns, is the value of the key's latest put, and get returns none
\* for a key removed, cleared or evicted since; at most one caller is inside
\* the cache at a time.
C24_LruCache ==
    /\ Len(cache) <= capacity
    /\ Cardinality(KeysOf(cache)) = Len(cache)
    /\ KeySeq(cache) = Reverse(used)
    /\ \A k \in Keys : ValueOf(cache, k) = latest[k]
    /\ Cardinality(Holders) <= 1
    /\ ret.op = "get" => ret.val = ret.want
    /\ ret.op = "put" => ret.out = ret.lru

\* A put of a new key into a full cache of two entries evicted one of them
\* while the other caller was waiting with a call of its own.
C24_witness ==
    /\ capacity = 2
    /\ ret.op = "put"
    /\ ret.out # 0
    /\ Len(cache) = 2
    /\ cache[1].key = ret.key
    /\ ret.out \notin KeysOf(cache)
    /\ latest[ret.out] = 0
    /\ Holders # {}

\* The malformed cache values of C25.
TooShort(b) == Len(b) < 8
SessionLenTooLarge(b) == Len(b) >= 8 /\ get_u64(b) > Len(b) - 8
AfterSession(b) == DropFirst(b, 8 + get_u64(b))
NoSecondPrefix(b) ==
    /\ Len(b) >= 8
    /\ ~SessionLenTooLarge(b)
    /\ Len(AfterSession(b)) < 8
ParamsLenTooLarge(b) ==
    /\ Len(b) >= 8
    /\ ~SessionLenTooLarge(b)
    /\ Len(AfterSession(b)) >= 8
    /\ get_u64(AfterSession(b)) > Len(AfterSession(b)) - 8
Malformed(b) ==
    \/ TooShort(b)
    \/ SessionLenTooLarge(b)
    \/ NoSecondPrefix(b)
    \/ ParamsLenTooLarge(b)

\* C25 (as stated): Entry::decode never panics, and on a cache value that is
\* shorter than 8 bytes, whose session length exceeds the remaining bytes,
\* that has no second length prefix, or whose parameters length exceeds the
\* remaining bytes, it returns an error.
C25_original ==
    /\ decoded # "Panic"
    /\ (decoded # "none" /\ Malformed(encoded)) => decoded = "Err"

TypeOK ==
    /\ pc \in {"init", "hs_flush", "hs_fill", "hs_final", "hs_returned", "ready",
              "rd_fill", "fl_wb", "fl_last", "sd_wait", "dropped"}
    /\ role \in {"none", "client", "server"}
    /\ closeState \in {"open", "sent"}
    /\ sdCalled \in BOOLEAN
    /\ outcome.tag \in {"None", "Connected", "Inner", "Io"}
    /\ capacity \in 0..MaxCap
    /\ Len(cache) <= MaxCap
    /\ decoded \in {"none", "Ok", "Err", "Panic"}
====
